---------------------------- MODULE Spec2Model ----------------------------
(***************************************************************************)
(* Login / user microservice (src/main.py): password hashing, the user     *)
(* store persisted to users.json by write-to-temp-then-replace, and the    *)
(* in-memory bearer-token sessions with optional TTL.                      *)
(*                                                                         *)
(* The endpoints are plain `def` handlers, which FastAPI runs on a thread  *)
(* pool: two requests run at the same time and interleave between their    *)
(* accesses to the shared dictionaries USERS and SESSIONS and to the file  *)
(* system.  Each action below is one such access together with the local   *)
(* computation that follows it.                                            *)
(*                                                                         *)
(* Strings are sequences of characters; a bearer token is a sequence of    *)
(* symbols, the empty string being << >>.                                  *)
(***************************************************************************)
EXTENDS Naturals, Integers, Sequences, FiniteSets, TLC

(***************************************************************************)
(* Bounds of the model.                                                    *)
(***************************************************************************)
MaxTime == 2
MaxTokens == 2

\* the threads of the pool that run the handlers
Threads == {"w1", "w2"}

(***************************************************************************)
(* The local variables of a handler and the response of a call.  Every     *)
(* record of the module lists its fields in the order of their first       *)
(* mention here.                                                           *)
(***************************************************************************)
NoLoc == [user_id |-> <<>>, password |-> <<>>, display_name |-> <<>>,
          token |-> <<>>, created_at |-> 0, fd |-> "none", off |-> 0,
          size |-> 0, op |-> "none"]

Response(op, status, ok, detail, user_id, display_name, token) ==
    [user_id |-> user_id, display_name |-> display_name, token |-> token,
     op |-> op, status |-> status, ok |-> ok, detail |-> detail]

(***************************************************************************)
(* Inputs.                                                                 *)
(***************************************************************************)
NUL == "\\0"
Pw1 == <<"p", "w", "d", "1">>
Pw2 == <<"p", "w", "d", "2">>
Pw1Nul == <<"p", "w", "d", "1", NUL>>
PwShort == <<"p", "w">>
Passwords == {Pw1, Pw2, Pw1Nul, PwShort}

RawUserIds == {<<"a">>, <<" ", "a", " ">>, <<"b">>, <<" ">>}
RawDisplayNames == {<<"A">>, <<" ", "B">>}
TtlValues == {0, 1}

Req(user_id, password, display_name) ==
    [user_id |-> user_id, password |-> password,
     display_name |-> display_name]

\* the request bodies of POST /users
CreateUserRequests ==
    { Req(<<"a">>, Pw1, <<"A">>),
      Req(<<" ", "a", " ">>, Pw2, <<" ", "B">>),
      Req(<<"b">>, Pw2, <<"A">>),
      Req(<<"b">>, PwShort, <<"A">>),
      Req(<<" ">>, Pw1, <<"A">>) }

\* the request bodies of POST /login
LoginRequests ==
    { [user_id |-> <<"a">>, password |-> Pw1],
      [user_id |-> <<" ", "a", " ">>, password |-> Pw2],
      [user_id |-> <<"a">>, password |-> Pw1Nul],
      [user_id |-> <<"b">>, password |-> Pw2],
      [user_id |-> <<"b">>, password |-> Pw1] }

\* The order in which the keys of USERS are visited (one fixed order for
\* every iteration of the dictionary).
KeyOrder == << <<"a">>, <<"b">> >>

DATA_FILE == "users.json"
TmpPath(path) == path \o ".tmp"

VARIABLES
    TOKEN_TTL_SECONDS,  \* configuration, read once at import
    now,                \* time.time()
    USERS,              \* user_id -> [display_name, password_hash]
    SESSIONS,           \* token -> [user_id, created_at]
    fs,                 \* path -> content of the file, a sequence of chunks
    pc,                 \* per thread: position in its handler
    loc,                \* per thread: the handler's local variables
    result,             \* per thread: the response of its last call
    minted,             \* number of tokens drawn from the random source
    issued              \* history: token -> [user_id, at] for the tokens
                        \* that login returned in this process run

vars == <<TOKEN_TTL_SECONDS, now, USERS, SESSIONS, fs, pc, loc, result,
          minted, issued>>

(***************************************************************************)
(* str.strip()                                                             *)
(***************************************************************************)
IsSpace(c) == c = " "

RECURSIVE LStrip(_)
LStrip(s) ==
    IF s # <<>> /\ IsSpace(Head(s)) THEN LStrip(Tail(s)) ELSE s

RECURSIVE RStrip(_)
RStrip(s) ==
    IF s # <<>> /\ IsSpace(s[Len(s)])
    THEN RStrip(SubSeq(s, 1, Len(s) - 1))
    ELSE s

Strip(s) == RStrip(LStrip(s))

(***************************************************************************)
(* Password hashing.  The stored string                                    *)
(* "pbkdf2_sha256$rounds$salt_b64$hash_b64" is the sequence of its four    *)
(* "$"-separated fields ("$" is in none of them).                          *)
(***************************************************************************)
ROUNDS == 120000
MIN_PASSWORD_LEN == 4
ALGO == "pbkdf2_sha256"
\* secrets.token_bytes(16): the salt a thread draws; two threads draw
\* different salts
Salt(t) == <<"salt", t>>

B64Encode(x) == <<"b64", x>>
B64Decode(y) == y[2]
IntToStr(n) == <<"dec", n>>
StrToInt(s) == s[2]

\* HMAC pads a key shorter than the hash block with zero bytes (RFC 2104),
\* so a key and the same key followed by NUL bytes are one HMAC key.
RECURSIVE HmacKey(_)
HmacKey(k) ==
    IF k # <<>> /\ k[Len(k)] = NUL
    THEN HmacKey(SubSeq(k, 1, Len(k) - 1))
    ELSE k

\* hashlib.pbkdf2_hmac("sha256", password, salt, rounds): a deterministic
\* function of the HMAC key, the salt and the round count, taken to be
\* injective in them.
Pbkdf2Hash(password, salt, rounds) == <<HmacKey(password), salt, rounds>>

HashPasswordOk(password) == Len(password) >= MIN_PASSWORD_LEN

hash_password(password, salt) ==
    <<ALGO, IntToStr(ROUNDS), B64Encode(salt),
      B64Encode(Pbkdf2Hash(password, salt, ROUNDS))>>

verify_password(password, stored) ==
    /\ Len(stored) = 4
    /\ stored[1] = ALGO
    /\ Pbkdf2Hash(password, B64Decode(stored[3]), StrToInt(stored[2]))
         = B64Decode(stored[4])

(***************************************************************************)
(* Dictionaries.                                                           *)
(***************************************************************************)
EmptyDict == <<>>
Put(d, k, v) == [x \in DOMAIN d \cup {k} |-> IF x = k THEN v ELSE d[x]]
Del(d, k) == [x \in DOMAIN d \ {k} |-> d[x]]

\* The keys of d in iteration order.
RECURSIVE KeysFrom(_, _)
KeysFrom(d, i) ==
    IF i > Len(KeyOrder) THEN <<>>
    ELSE (IF KeyOrder[i] \in DOMAIN d THEN <<KeyOrder[i]>> ELSE <<>>)
             \o KeysFrom(d, i + 1)
Keys(d) == KeysFrom(d, 1)

(***************************************************************************)
(* The file system: json.dump writes the document chunk by chunk, one      *)
(* chunk per user entry and a closing one.                                 *)
(***************************************************************************)
END == <<"}">>
HOLE == <<"\\0">>
Entry(k, v) == <<"entry", k, v>>
IsEntry(c) == Len(c) = 3

\* write(2) of one chunk at offset off (counted in chunks)
RECURSIVE Holes(_)
Holes(n) == IF n = 0 THEN <<>> ELSE <<HOLE>> \o Holes(n - 1)

WriteAt(content, off, chunk) ==
    IF off >= Len(content)
    THEN content \o Holes(off - Len(content)) \o <<chunk>>
    ELSE [content EXCEPT ![off + 1] = chunk]

\* json.load succeeds on a complete document only
Parses(content) ==
    /\ content # <<>>
    /\ content[Len(content)] = END
    /\ \A i \in 1..(Len(content) - 1) : IsEntry(content[i])

RECURSIVE DictOf(_)
DictOf(content) ==
    IF content = <<>> \/ ~IsEntry(Head(content)) THEN EmptyDict
    ELSE LET rest == DictOf(Tail(content))
             e == Head(content)
         IN  IF e[2] \in DOMAIN rest THEN rest ELSE Put(rest, e[2], e[3])

\* json.dump(USERS): the complete document
RECURSIVE EntriesOf(_, _)
EntriesOf(d, ks) ==
    IF ks = <<>> THEN <<>>
    ELSE <<Entry(Head(ks), d[Head(ks)])>> \o EntriesOf(d, Tail(ks))
Document(d) == EntriesOf(d, Keys(d)) \o <<END>>

\* os.path.exists(path)
Exists(path) == path \in DOMAIN fs

\* Content that the service does not write but may find in users.json: a
\* complete JSON document that is an array, and bytes that are not UTF-8.
JSON_LIST == <<"[\"x\"]">>
NOT_UTF8 == <<"\\xff">>

\* the Python value of the array document, by index
ListValue == Put(EmptyDict, <<"[0]">>, <<"x">>)

\* json.load(f): <<"raise">> when reading or parsing raises, else the kind
\* of the value and the value
JsonLoad(content) ==
    IF content = <<JSON_LIST>> THEN <<"list", ListValue>>
    ELSE IF Parses(content) THEN <<"dict", DictOf(content)>>
    ELSE <<"raise">>

\* as load_users, without the isinstance check
load_users_any_json ==
    IF ~Exists(DATA_FILE) THEN EmptyDict
    ELSE LET data == JsonLoad(fs[DATA_FILE]) IN
         IF data[1] = "raise" THEN EmptyDict ELSE data[2]

load_users ==
    IF ~Exists(DATA_FILE) THEN EmptyDict
    ELSE LET data == JsonLoad(fs[DATA_FILE]) IN
         IF data[1] = "raise" THEN EmptyDict
         ELSE IF data[1] = "dict" THEN data[2] ELSE EmptyDict

(***************************************************************************)
(* An open file descriptor refers to a file, not to a path: "tmp" is the   *)
(* file now named users.json.tmp, "data" a file that os.replace has since  *)
(* renamed to users.json, "orphan" a file that has no name any more (what  *)
(* is written to it is read by nobody).                                    *)
(***************************************************************************)
Renamed(fd) ==
    IF fd = "tmp" THEN "data" ELSE IF fd = "data" THEN "orphan" ELSE fd

PathOf(fd) == IF fd = "tmp" THEN TmpPath(DATA_FILE) ELSE DATA_FILE

WriteFd(files, fd, off, chunk) ==
    IF fd \in {"tmp", "data"}
    THEN [files EXCEPT ![PathOf(fd)] = WriteAt(@, off, chunk)]
    ELSE files

(***************************************************************************)
(* Responses and the control of a handler.                                 *)
(***************************************************************************)
NoResult == Response("none", 0, FALSE, "", <<>>, <<>>, <<>>)

HTTPException(op, status, detail) ==
    Response(op, status, FALSE, detail, <<>>, <<>>, <<>>)

\* an exception no handler catches: the framework answers 500
ServerError(op, detail) == Response(op, 500, FALSE, detail, <<>>, <<>>, <<>>)

\* The responses of the calls that ended since the last call began: a
\* request that arrives finds the earlier responses delivered.
Delivered == [t \in Threads |-> NoResult]

\* thread t, idle, takes a request and answers it in the same step
Answer(t, r) ==
    /\ pc[t] = "idle"
    /\ UNCHANGED <<pc, loc>>
    /\ result' = [Delivered EXCEPT ![t] = r]

\* thread t, idle, takes a request and goes on to label
Begin(t, label, l) ==
    /\ pc[t] = "idle"
    /\ pc' = [pc EXCEPT ![t] = label]
    /\ loc' = [loc EXCEPT ![t] = l]
    /\ result' = Delivered

Goto(t, label, l) ==
    /\ pc' = [pc EXCEPT ![t] = label]
    /\ loc' = [loc EXCEPT ![t] = l]
    /\ UNCHANGED result

Finish(t, r) ==
    /\ pc' = [pc EXCEPT ![t] = "idle"]
    /\ loc' = [loc EXCEPT ![t] = NoLoc]
    /\ result' = [result EXCEPT ![t] = r]

\* public_user(user_id)
public_user(op, user_id) ==
    IF user_id \notin DOMAIN USERS
    THEN HTTPException(op, 404, "User not found")
    ELSE Response(op, 200, TRUE, "", user_id, USERS[user_id].display_name,
                  <<>>)

(***************************************************************************)
(* Initial state: the module is imported with the configured TTL, no data  *)
(* file exists, startup has run load_users.                                *)
(***************************************************************************)
Init ==
    /\ TOKEN_TTL_SECONDS \in TtlValues
    /\ now = 0
    /\ USERS = EmptyDict
    /\ SESSIONS = EmptyDict
    /\ fs = EmptyDict
    /\ pc = [t \in Threads |-> "idle"]
    /\ loc = [t \in Threads |-> NoLoc]
    /\ result = [t \in Threads |-> NoResult]
    /\ minted = 0
    /\ issued = EmptyDict

\* The process started on a data directory as it was left behind: no
\* users.json, one that an earlier run wrote, or one that something else
\* wrote or damaged.
StartUsers ==
    Put(EmptyDict, <<"b">>,
        [display_name |-> <<"A">>,
         password_hash |-> hash_password(Pw2, Salt("w2"))])

StartFiles ==
    { <<>>,
      <<NOT_UTF8>>,
      <<JSON_LIST>>,
      <<Entry(<<"b">>, StartUsers[<<"b">>])>>,
      Document(EmptyDict),
      Document(StartUsers) }

InitDisk ==
    /\ TOKEN_TTL_SECONDS \in TtlValues
    /\ now = 0
    /\ \/ fs = EmptyDict
       \/ \E content \in StartFiles : fs = Put(EmptyDict, DATA_FILE, content)
    /\ USERS = load_users
    /\ SESSIONS = EmptyDict
    /\ pc = [t \in Threads |-> "idle"]
    /\ loc = [t \in Threads |-> NoLoc]
    /\ result = [t \in Threads |-> NoResult]
    /\ minted = 0
    /\ issued = EmptyDict

\* time passes
Tick ==
    /\ now < MaxTime
    /\ now' = now + 1
    /\ UNCHANGED <<TOKEN_TTL_SECONDS, USERS, SESSIONS, fs, pc, loc, result,
                   minted, issued>>

(***************************************************************************)
(* POST /users: create_user                                                *)
(***************************************************************************)
\* as CreateCheck, the duplicate check on the identity as sent
CreateCheckUnstripped(t, req) ==
    LET user_id == Strip(req.user_id) IN
    /\ IF user_id = <<>>
       THEN Answer(t, HTTPException("create", 400, "user_id cannot be blank"))
       ELSE IF req.user_id \in DOMAIN USERS
       THEN Answer(t, HTTPException("create", 409, "User already exists"))
       ELSE Begin(t, "c_insert",
                  [NoLoc EXCEPT !.op = "create", !.user_id = user_id,
                                !.password = req.password,
                                !.display_name = req.display_name])
    /\ UNCHANGED <<TOKEN_TTL_SECONDS, now, USERS, SESSIONS, fs, minted,
                   issued>>

\* lines 208-213: strip, the blank check and the duplicate check
CreateCheck(t, req) ==
    LET user_id == Strip(req.user_id) IN
    /\ IF user_id = <<>>
       THEN Answer(t, HTTPException("create", 400, "user_id cannot be blank"))
       ELSE IF user_id \in DOMAIN USERS
       THEN Answer(t, HTTPException("create", 409, "User already exists"))
       ELSE Begin(t, "c_insert",
                  [NoLoc EXCEPT !.op = "create", !.user_id = user_id,
                                !.password = req.password,
                                !.display_name = req.display_name])
    /\ UNCHANGED <<TOKEN_TTL_SECONDS, now, USERS, SESSIONS, fs, minted,
                   issued>>

\* lines 215-223: hash_password and the assignment USERS[user_id] = {...}
CreateInsert(t) ==
    /\ pc[t] = "c_insert"
    /\ IF ~HashPasswordOk(loc[t].password)
       THEN /\ Finish(t, HTTPException("create", 400,
                         "Password must be at least 4 characters."))
            /\ USERS' = USERS
       ELSE /\ USERS' = Put(USERS, loc[t].user_id,
                   [display_name |-> Strip(loc[t].display_name),
                    password_hash |-> hash_password(loc[t].password,
                                                    Salt(t))])
            /\ Goto(t, "c_open", loc[t])
    /\ UNCHANGED <<TOKEN_TTL_SECONDS, now, SESSIONS, fs, minted, issued>>

\* save_users -> _atomic_write_json, line 134: open(tmp, "w") creates the
\* file or truncates the existing one; json.dump then starts to iterate
\* over USERS.
SaveOpen(t) ==
    /\ pc[t] = "c_open"
    /\ fs' = Put(fs, TmpPath(DATA_FILE), <<>>)
    /\ Goto(t, "c_dump", [loc[t] EXCEPT !.fd = "tmp", !.off = 0,
                                        !.size = Cardinality(DOMAIN USERS)])
    /\ UNCHANGED <<TOKEN_TTL_SECONDS, now, USERS, SESSIONS, minted, issued>>

\* line 135: one step of json.dump.  The dictionary iterator raises
\* RuntimeError when the size of USERS changed since it was created; else
\* the next entry, or after the last one the closing chunk, is written at
\* the descriptor's offset.  Leaving the with block closes the file.
SaveDump(t) ==
    LET l == loc[t] IN
    /\ pc[t] = "c_dump"
    /\ IF Cardinality(DOMAIN USERS) # l.size
       THEN /\ Finish(t, ServerError("create",
                   "RuntimeError: dictionary changed size during iteration"))
            /\ fs' = fs
       ELSE IF l.off < l.size
       THEN LET k == Keys(USERS)[l.off + 1] IN
            /\ fs' = WriteFd(fs, l.fd, l.off, Entry(k, USERS[k]))
            /\ Goto(t, "c_dump", [l EXCEPT !.off = l.off + 1])
       ELSE /\ fs' = WriteFd(fs, l.fd, l.off, END)
            /\ Goto(t, "c_replace", [l EXCEPT !.fd = "none", !.off = 0,
                                              !.size = 0])
    /\ UNCHANGED <<TOKEN_TTL_SECONDS, now, USERS, SESSIONS, minted, issued>>

\* line 136: os.replace(tmp, path); the descriptors that other threads
\* hold follow their files
SaveReplace(t) ==
    LET tmp == TmpPath(DATA_FILE) IN
    /\ pc[t] = "c_replace"
    /\ IF ~Exists(tmp)
       THEN /\ Finish(t, ServerError("create", "FileNotFoundError"))
            /\ fs' = fs
       ELSE /\ fs' = Del(Put(fs, DATA_FILE, fs[tmp]), tmp)
            /\ pc' = [pc EXCEPT ![t] = "c_return"]
            /\ loc' = [u \in Threads |->
                         [loc[u] EXCEPT !.fd = Renamed(loc[u].fd)]]
            /\ UNCHANGED result
    /\ UNCHANGED <<TOKEN_TTL_SECONDS, now, USERS, SESSIONS, minted, issued>>

\* lines 134-136: open, a write of json.dump or os.replace raises OSError
\* (the directory is not writable, the disk is full).  Nothing catches it:
\* the call ends in 500, the file system is as the failed call left it,
\* and USERS keeps the record that line 220 inserted.
SaveFails(t) ==
    /\ pc[t] \in {"c_open", "c_dump", "c_replace"}
    /\ Finish(t, ServerError("create", "OSError"))
    /\ UNCHANGED <<TOKEN_TTL_SECONDS, now, USERS, SESSIONS, fs, minted,
                   issued>>

\* line 226
CreateReturn(t) ==
    /\ pc[t] = "c_return"
    /\ Finish(t, public_user("create", loc[t].user_id))
    /\ UNCHANGED <<TOKEN_TTL_SECONDS, now, USERS, SESSIONS, fs, minted,
                   issued>>

(***************************************************************************)
(* GET /users/{user_id}                                                    *)
(***************************************************************************)
get_user(t, user_id) ==
    /\ Answer(t, public_user("get_user", user_id))
    /\ UNCHANGED <<TOKEN_TTL_SECONDS, now, USERS, SESSIONS, fs, minted,
                   issued>>

(***************************************************************************)
(* POST /login                                                             *)
(***************************************************************************)
\* as NewToken, the random source returning its first value again
FirstTokenAgain == <<1>>

\* secrets.token_urlsafe(32): a value the random source has not produced
\* before
NewToken == <<minted + 1>>

\* the session body of login, by the identity the session is recorded for
\* and the response to an unknown identity
LoginWith(t, req, owner, unknown) ==
    LET user_id == Strip(req.user_id) IN
    /\ IF user_id \notin DOMAIN USERS
       THEN /\ Answer(t, unknown)
            /\ UNCHANGED <<SESSIONS, minted, issued>>
       ELSE IF ~verify_password(req.password, USERS[user_id].password_hash)
       THEN /\ Answer(t, HTTPException("login", 401, "Invalid credentials"))
            /\ UNCHANGED <<SESSIONS, minted, issued>>
       ELSE /\ minted < MaxTokens
            /\ minted' = minted + 1
            /\ SESSIONS' = Put(SESSIONS, NewToken,
                               [user_id |-> owner, created_at |-> now])
            /\ issued' = Put(issued, NewToken,
                             [user_id |-> user_id, at |-> now])
            /\ Answer(t, Response("login", 200, TRUE, "", user_id, <<>>,
                                  NewToken))
    /\ UNCHANGED <<TOKEN_TTL_SECONDS, now, USERS, fs>>

\* as login, the session recorded for the identity as sent
LoginOwnerUnstripped(t, req) ==
    LoginWith(t, req, req.user_id,
              HTTPException("login", 401, "Invalid credentials"))

\* as login, an unknown identity answered 404
LoginRevealsUnknown(t, req) ==
    LoginWith(t, req, Strip(req.user_id),
              HTTPException("login", 404, "User not found"))

\* as login, a user who logged in before given that login's token again,
\* with a new creation time
LoginReissues(t, req) ==
    LET user_id == Strip(req.user_id)
        earlier == {k \in DOMAIN issued : issued[k].user_id = user_id}
        token == IF earlier = {} THEN NewToken
                 ELSE CHOOSE k \in earlier : TRUE
    IN
    /\ IF user_id \notin DOMAIN USERS
       THEN /\ Answer(t, HTTPException("login", 401, "Invalid credentials"))
            /\ UNCHANGED <<SESSIONS, minted, issued>>
       ELSE IF ~verify_password(req.password, USERS[user_id].password_hash)
       THEN /\ Answer(t, HTTPException("login", 401, "Invalid credentials"))
            /\ UNCHANGED <<SESSIONS, minted, issued>>
       ELSE /\ minted < MaxTokens
            /\ minted' = minted + 1
            /\ SESSIONS' = Put(SESSIONS, token,
                               [user_id |-> user_id, created_at |-> now])
            /\ issued' = Put(issued, token,
                             [user_id |-> user_id, at |-> now])
            /\ Answer(t, Response("login", 200, TRUE, "", user_id, <<>>,
                                  token))
    /\ UNCHANGED <<TOKEN_TTL_SECONDS, now, USERS, fs>>

\* as login, the session recorded before the password is verified
LoginSessionFirst(t, req) ==
    LET user_id == Strip(req.user_id) IN
    /\ IF user_id \notin DOMAIN USERS
       THEN /\ Answer(t, HTTPException("login", 401, "Invalid credentials"))
            /\ UNCHANGED <<SESSIONS, minted, issued>>
       ELSE /\ minted < MaxTokens
            /\ minted' = minted + 1
            /\ SESSIONS' = Put(SESSIONS, NewToken,
                               [user_id |-> user_id, created_at |-> now])
            /\ IF ~verify_password(req.password,
                                   USERS[user_id].password_hash)
               THEN /\ issued' = issued
                    /\ Answer(t, HTTPException("login", 401,
                                               "Invalid credentials"))
               ELSE /\ issued' = Put(issued, NewToken,
                                     [user_id |-> user_id, at |-> now])
                    /\ Answer(t, Response("login", 200, TRUE, "", user_id,
                                          <<>>, NewToken))
    /\ UNCHANGED <<TOKEN_TTL_SECONDS, now, USERS, fs>>

login(t, req) ==
    LET user_id == Strip(req.user_id) IN
    /\ IF user_id \notin DOMAIN USERS
       THEN /\ Answer(t, HTTPException("login", 401, "Invalid credentials"))
            /\ UNCHANGED <<SESSIONS, minted, issued>>
       ELSE IF ~verify_password(req.password, USERS[user_id].password_hash)
       THEN /\ Answer(t, HTTPException("login", 401, "Invalid credentials"))
            /\ UNCHANGED <<SESSIONS, minted, issued>>
       ELSE /\ minted < MaxTokens
            /\ minted' = minted + 1
            /\ SESSIONS' = Put(SESSIONS, NewToken,
                               [user_id |-> user_id, created_at |-> now])
            /\ issued' = Put(issued, NewToken,
                             [user_id |-> user_id, at |-> now])
            /\ Answer(t, Response("login", 200, TRUE, "", user_id, <<>>,
                                  NewToken))
    /\ UNCHANGED <<TOKEN_TTL_SECONDS, now, USERS, fs>>

(***************************************************************************)
(* GET /me and GET /validate, both through _session_valid                  *)
(***************************************************************************)
NeverIssued == <<0>>
PresentedTokens == {<<>>, NeverIssued} \cup {<<n>> : n \in 1..MaxTokens}

\* the response when _session_valid returned None
InvalidToken(op) ==
    IF op = "me"
    THEN HTTPException("me", 401, "Invalid or expired token")
    ELSE Response("validate", 200, FALSE, "Invalid or expired token",
                  <<>>, <<>>, <<>>)

\* the response when _session_valid returned the session
ValidToken(op, user_id) ==
    IF op = "me"
    THEN public_user("me", user_id)
    ELSE Response("validate", 200, TRUE, "", user_id, <<>>, <<>>)

\* as SessionGet, a TTL of 0 taken for a lifetime of 0 seconds
SessionGetZeroTtl(t, op, token) ==
    /\ IF token \notin DOMAIN SESSIONS
       THEN Answer(t, InvalidToken(op))
       ELSE IF TOKEN_TTL_SECONDS >= 0
       THEN Begin(t, "v_ttl",
                  [NoLoc EXCEPT !.op = op, !.token = token,
                                !.user_id = SESSIONS[token].user_id,
                                !.created_at = SESSIONS[token].created_at])
       ELSE Answer(t, ValidToken(op, SESSIONS[token].user_id))
    /\ UNCHANGED <<TOKEN_TTL_SECONDS, now, USERS, SESSIONS, fs, minted,
                   issued>>

\* as SessionGet, /me looking the session up without the expiry check
SessionGetMeNoTtl(t, op, token) ==
    /\ IF token \notin DOMAIN SESSIONS
       THEN Answer(t, InvalidToken(op))
       ELSE IF TOKEN_TTL_SECONDS > 0 /\ op # "me"
       THEN Begin(t, "v_ttl",
                  [NoLoc EXCEPT !.op = op, !.token = token,
                                !.user_id = SESSIONS[token].user_id,
                                !.created_at = SESSIONS[token].created_at])
       ELSE Answer(t, ValidToken(op, SESSIONS[token].user_id))
    /\ UNCHANGED <<TOKEN_TTL_SECONDS, now, USERS, SESSIONS, fs, minted,
                   issued>>

\* lines 184-187: SESSIONS.get(token); with no TTL the session is returned
SessionGet(t, op, token) ==
    /\ IF token \notin DOMAIN SESSIONS
       THEN Answer(t, InvalidToken(op))
       ELSE IF TOKEN_TTL_SECONDS > 0
       THEN Begin(t, "v_ttl",
                  [NoLoc EXCEPT !.op = op, !.token = token,
                                !.user_id = SESSIONS[token].user_id,
                                !.created_at = SESSIONS[token].created_at])
       ELSE Answer(t, ValidToken(op, SESSIONS[token].user_id))
    /\ UNCHANGED <<TOKEN_TTL_SECONDS, now, USERS, SESSIONS, fs, minted,
                   issued>>

\* as SessionTtl, the token expired once its age reaches the TTL
SessionTtlAtTtl(t) ==
    LET l == loc[t] IN
    /\ pc[t] = "v_ttl"
    /\ IF now - l.created_at >= TOKEN_TTL_SECONDS
       THEN IF l.token \in DOMAIN SESSIONS
            THEN /\ SESSIONS' = Del(SESSIONS, l.token)
                 /\ Finish(t, InvalidToken(l.op))
            ELSE /\ SESSIONS' = SESSIONS
                 /\ Finish(t, ServerError(l.op, "KeyError"))
       ELSE /\ SESSIONS' = SESSIONS
            /\ Finish(t, ValidToken(l.op, l.user_id))
    /\ UNCHANGED <<TOKEN_TTL_SECONDS, now, USERS, fs, minted, issued>>

\* as SessionTtl, a successful validation renewing the session's timestamp
SessionTtlSliding(t) ==
    LET l == loc[t] IN
    /\ pc[t] = "v_ttl"
    /\ IF now - l.created_at > TOKEN_TTL_SECONDS
       THEN IF l.token \in DOMAIN SESSIONS
            THEN /\ SESSIONS' = Del(SESSIONS, l.token)
                 /\ Finish(t, InvalidToken(l.op))
            ELSE /\ SESSIONS' = SESSIONS
                 /\ Finish(t, ServerError(l.op, "KeyError"))
       ELSE /\ SESSIONS' = IF l.token \in DOMAIN SESSIONS
                           THEN Put(SESSIONS, l.token,
                                    [user_id |-> l.user_id,
                                     created_at |-> now])
                           ELSE SESSIONS
            /\ Finish(t, ValidToken(l.op, l.user_id))
    /\ UNCHANGED <<TOKEN_TTL_SECONDS, now, USERS, fs, minted, issued>>

\* lines 188-192: the expiry check and the lazy eviction
SessionTtl(t) ==
    LET l == loc[t] IN
    /\ pc[t] = "v_ttl"
    /\ IF now - l.created_at > TOKEN_TTL_SECONDS
       THEN IF l.token \in DOMAIN SESSIONS
            THEN /\ SESSIONS' = Del(SESSIONS, l.token)
                 /\ Finish(t, InvalidToken(l.op))
            ELSE /\ SESSIONS' = SESSIONS
                 /\ Finish(t, ServerError(l.op, "KeyError"))
       ELSE /\ SESSIONS' = SESSIONS
            /\ Finish(t, ValidToken(l.op, l.user_id))
    /\ UNCHANGED <<TOKEN_TTL_SECONDS, now, USERS, fs, minted, issued>>

(***************************************************************************)
(* The process stops at any point (every handler in progress is lost with  *)
(* its open files) and is started again: SESSIONS is empty, startup runs   *)
(* load_users.                                                             *)
(***************************************************************************)
\* as Restart, the sessions kept over the restart
RestartKeepsSessions ==
    /\ pc' = [t \in Threads |-> "idle"]
    /\ loc' = [t \in Threads |-> NoLoc]
    /\ result' = Delivered
    /\ USERS' = load_users
    /\ SESSIONS' = SESSIONS
    /\ issued' = EmptyDict
    /\ UNCHANGED <<TOKEN_TTL_SECONDS, now, fs, minted>>

\* as Restart, the sessions that never expire kept over the restart
RestartKeepsUnexpiring ==
    /\ pc' = [t \in Threads |-> "idle"]
    /\ loc' = [t \in Threads |-> NoLoc]
    /\ result' = Delivered
    /\ USERS' = load_users
    /\ SESSIONS' = IF TOKEN_TTL_SECONDS = 0 THEN SESSIONS ELSE EmptyDict
    /\ issued' = EmptyDict
    /\ UNCHANGED <<TOKEN_TTL_SECONDS, now, fs, minted>>

Restart ==
    /\ pc' = [t \in Threads |-> "idle"]
    /\ loc' = [t \in Threads |-> NoLoc]
    /\ result' = Delivered
    /\ USERS' = load_users
    /\ SESSIONS' = EmptyDict
    /\ issued' = EmptyDict
    /\ UNCHANGED <<TOKEN_TTL_SECONDS, now, fs, minted>>

\* A pool of one thread: the requests are handled one at a time, in any
\* order, with time passing and the process restarting at any point.
Worker == "w1"

Next ==
    \/ Tick
    \/ Restart
    \/ \E req \in CreateUserRequests : CreateCheck(Worker, req)
    \/ CreateInsert(Worker)
    \/ SaveOpen(Worker)
    \/ SaveDump(Worker)
    \/ SaveReplace(Worker)
    \/ CreateReturn(Worker)
    \/ \E user_id \in RawUserIds : get_user(Worker, user_id)
    \/ \E req \in LoginRequests : login(Worker, req)
    \/ \E op \in {"me", "validate"}, token \in PresentedTokens :
           SessionGet(Worker, op, token)
    \/ SessionTtl(Worker)

Spec == Init /\ [][Next]_vars

\* The thread pool handling POST /users and GET /users requests: the
\* steps of the handlers of different threads interleave, and the process
\* restarts at any point.
StoreNext ==
    \/ Restart
    \/ \E t \in Threads, req \in CreateUserRequests : CreateCheck(t, req)
    \/ \E t \in Threads : CreateInsert(t)
    \/ \E t \in Threads : SaveOpen(t)
    \/ \E t \in Threads : SaveDump(t)
    \/ \E t \in Threads : SaveReplace(t)
    \/ \E t \in Threads : CreateReturn(t)
    \/ \E t \in Threads, user_id \in RawUserIds : get_user(t, user_id)

SpecStore == Init /\ [][StoreNext]_vars

\* One thread handling the requests one at a time on storage that can fail:
\* the process starts on whatever users.json it finds, and any of the file
\* operations of a create may raise OSError.
DiskNext ==
    \/ Restart
    \/ \E req \in CreateUserRequests : CreateCheck(Worker, req)
    \/ CreateInsert(Worker)
    \/ SaveOpen(Worker)
    \/ SaveDump(Worker)
    \/ SaveReplace(Worker)
    \/ SaveFails(Worker)
    \/ CreateReturn(Worker)
    \/ \E user_id \in RawUserIds : get_user(Worker, user_id)
    \/ \E req \in LoginRequests : login(Worker, req)

SpecDisk == InitDisk /\ [][DiskNext]_vars

\* The thread pool handling POST /login, GET /me and GET /validate
\* requests of the registered users "a" and "b": the steps of the handlers
\* of different threads interleave, time passes and the process restarts
\* at any point.
RegisteredUsers ==
    Put(StartUsers, <<"a">>,
        [display_name |-> <<"A">>,
         password_hash |-> hash_password(Pw1, Salt("w1"))])

InitSessions ==
    /\ TOKEN_TTL_SECONDS \in TtlValues
    /\ now = 0
    /\ fs = Put(EmptyDict, DATA_FILE, Document(RegisteredUsers))
    /\ USERS = load_users
    /\ SESSIONS = EmptyDict
    /\ pc = [t \in Threads |-> "idle"]
    /\ loc = [t \in Threads |-> NoLoc]
    /\ result = [t \in Threads |-> NoResult]
    /\ minted = 0
    /\ issued = EmptyDict

SessionsNext ==
    \/ Tick
    \/ Restart
    \/ \E t \in Threads, req \in LoginRequests : login(t, req)
    \/ \E t \in Threads, op \in {"me", "validate"},
          token \in PresentedTokens : SessionGet(t, op, token)
    \/ \E t \in Threads : SessionTtl(t)

SpecSessions == InitSessions /\ [][SessionsNext]_vars

(***************************************************************************)
(* Properties of the service.                                              *)
(***************************************************************************)
Conflict == [user_id |-> <<>>, display_name |-> <<>>, token |-> <<>>,
             op |-> "create", status |-> 409, ok |-> FALSE,
             detail |-> "User already exists"]

\* C1: a create call whose stripped identity is already in the user store
\* is answered Conflict in that step and leaves the user store, so the
\* existing record's digest and display name, as it was.
C1_DuplicateCreateConflicts ==
    [][\A t \in Threads, req \in CreateUserRequests :
          (CreateCheck(t, req) /\ Strip(req.user_id) \in DOMAIN USERS)
          => /\ result'[t] = Conflict
             /\ pc'[t] = "idle"
             /\ USERS' = USERS]_vars

\* a duplicate create of "a" was just answered, and the record of "a" is
\* the one of the first registration
C1_Witness ==
    /\ \E t \in Threads : result[t] = Conflict
    /\ DOMAIN USERS = {<<"a">>}
    /\ USERS[<<"a">>].display_name = <<"A">>
    /\ verify_password(Pw1, USERS[<<"a">>].password_hash)

ValidateOk(user_id) ==
    [user_id |-> user_id, display_name |-> <<>>, token |-> <<>>,
     op |-> "validate", status |-> 200, ok |-> TRUE, detail |-> ""]

ValidateInvalid ==
    [user_id |-> <<>>, display_name |-> <<>>, token |-> <<>>,
     op |-> "validate", status |-> 200, ok |-> FALSE,
     detail |-> "Invalid or expired token"]

\* the token's age is within the configured TTL, or no TTL is configured
Unexpired(tok) ==
    \/ TOKEN_TTL_SECONDS <= 0
    \/ now - issued[tok].at <= TOKEN_TTL_SECONDS

\* C2: as long as a token that login returned has not expired (and the
\* process has not restarted), its session is in SESSIONS under the
\* identity of the login response, and every validate call on it, whatever
\* happened in between, answers that identity.
C2_TokenResolvesToLoginIdentity ==
    /\ [](\A tok \in DOMAIN issued :
            Unexpired(tok) =>
              /\ tok \in DOMAIN SESSIONS
              /\ SESSIONS[tok].user_id = issued[tok].user_id)
    /\ [][\A t \in Threads, tok \in DOMAIN issued :
            Unexpired(tok) =>
              /\ SessionGet(t, "validate", tok) =>
                   \/ result'[t] = ValidateOk(issued[tok].user_id)
                   \/ pc'[t] = "v_ttl" /\ loc'[t].token = tok
              /\ ( /\ pc[t] = "v_ttl"
                   /\ loc[t].op = "validate"
                   /\ loc[t].token = tok
                   /\ SessionTtl(t) ) =>
                   result'[t] = ValidateOk(issued[tok].user_id)]_vars

\* with TTL 1, "a" logged in at time 0 with the padded identity, "b"
\* logged in at time 1, and after that validate answered "a" for the first
\* token, one second old
C2_Witness ==
    /\ TOKEN_TTL_SECONDS = 1
    /\ now = 1
    /\ DOMAIN issued = {<<1>>, <<2>>}
    /\ issued[<<1>>] = [user_id |-> <<"a">>, at |-> 0]
    /\ issued[<<2>>] = [user_id |-> <<"b">>, at |-> 1]
    /\ verify_password(Pw2, USERS[<<"a">>].password_hash)
    /\ \E t \in Threads : result[t] = ValidateOk(<<"a">>)

\* C3: a session exists only under a token that login returned in this
\* process run; a token that was not, and the empty string, is answered
\* Invalid by /validate and /me.
C3_OnlyIssuedTokensAccepted ==
    /\ [](/\ DOMAIN SESSIONS \subseteq DOMAIN issued
          /\ <<>> \notin DOMAIN issued
          /\ NeverIssued \notin DOMAIN issued
          /\ \A t \in Threads :
                pc[t] = "v_ttl" => loc[t].token \in DOMAIN issued)
    /\ [][\A t \in Threads, op \in {"me", "validate"},
             tok \in PresentedTokens \ DOMAIN issued :
            SessionGet(t, op, tok) =>
              /\ pc'[t] = "idle"
              /\ ~result'[t].ok
              /\ result'[t].detail = "Invalid or expired token"
              /\ result'[t].user_id = <<>>]_vars

\* one login happened, the process restarted with no login since (TTL 0, so
\* nothing expired), and a validate call was answered Invalid
C3_Witness ==
    /\ minted = 1
    /\ issued = EmptyDict
    /\ TOKEN_TTL_SECONDS = 0
    /\ \E t \in Threads : result[t] = ValidateInvalid

\* C4: with a TTL > 0 every validation of a token in SESSIONS reads its
\* session and goes through the expiry check, which answers the owning
\* identity and keeps the session when the token's age is at most the TTL,
\* and answers Invalid and removes the session when the age exceeds the
\* TTL.
C4_TtlExpiry ==
    [][\A t \in Threads :
          /\ \A op \in {"me", "validate"}, tok \in DOMAIN SESSIONS :
               (TOKEN_TTL_SECONDS > 0 /\ SessionGet(t, op, tok)) =>
                 /\ pc'[t] = "v_ttl"
                 /\ loc'[t].token = tok
                 /\ loc'[t].user_id = SESSIONS[tok].user_id
                 /\ loc'[t].created_at = SESSIONS[tok].created_at
          /\ (pc[t] = "v_ttl" /\ SessionTtl(t)) =>
               LET tok == loc[t].token
                   age == now - loc[t].created_at
               IN  IF age <= TOKEN_TTL_SECONDS
                   THEN /\ result'[t].ok
                        /\ result'[t].user_id = loc[t].user_id
                        /\ SESSIONS' = SESSIONS
                   ELSE /\ ~result'[t].ok
                        /\ result'[t].detail = "Invalid or expired token"
                        /\ tok \notin DOMAIN SESSIONS'
                        /\ \A other \in DOMAIN SESSIONS \ {tok} :
                              /\ other \in DOMAIN SESSIONS'
                              /\ SESSIONS'[other] = SESSIONS[other]]_vars

\* with TTL 1, a token issued at time 0 was validated at time 2: Invalid,
\* and its session is gone
C4_Witness ==
    /\ TOKEN_TTL_SECONDS = 1
    /\ now = 2
    /\ <<1>> \in DOMAIN issued
    /\ issued[<<1>>].at = 0
    /\ <<1>> \notin DOMAIN SESSIONS
    /\ \E t \in Threads : result[t] = ValidateInvalid

\* C5: with TTL 0 every token that login returned in this process run
\* stays in SESSIONS as issued, and every validate call on it answers its
\* identity, whatever the time.
C5_ZeroTtlNeverExpires ==
    /\ [](TOKEN_TTL_SECONDS = 0 =>
            \A tok \in DOMAIN issued :
              /\ tok \in DOMAIN SESSIONS
              /\ SESSIONS[tok] = [user_id |-> issued[tok].user_id,
                                  created_at |-> issued[tok].at])
    /\ [][\A t \in Threads, tok \in DOMAIN issued :
            (TOKEN_TTL_SECONDS = 0 /\ SessionGet(t, "validate", tok)) =>
              result'[t] = ValidateOk(issued[tok].user_id)]_vars

\* with TTL 0, "a" logged in at time 0, "b" at the last moment of the
\* model's clock, and after that validate answered "a" for the first token
C5_Witness ==
    /\ TOKEN_TTL_SECONDS = 0
    /\ now = MaxTime
    /\ DOMAIN issued = {<<1>>, <<2>>}
    /\ issued[<<1>>] = [user_id |-> <<"a">>, at |-> 0]
    /\ issued[<<2>>] = [user_id |-> <<"b">>, at |-> MaxTime]
    /\ \E t \in Threads : result[t] = ValidateOk(<<"a">>)

InvalidCredentials ==
    [user_id |-> <<>>, display_name |-> <<>>, token |-> <<>>,
     op |-> "login", status |-> 401, ok |-> FALSE,
     detail |-> "Invalid credentials"]

UnknownIdentity(req) == Strip(req.user_id) \notin DOMAIN USERS

WrongPassword(req) ==
    /\ Strip(req.user_id) \in DOMAIN USERS
    /\ ~verify_password(req.password,
                        USERS[Strip(req.user_id)].password_hash)

\* C6: a login that fails because the identity is not registered and a
\* login that fails because the password is wrong are answered with one
\* and the same response, and neither adds a session.
C6_LoginFailureUndifferentiated ==
    [][\A t \in Threads, req \in LoginRequests :
          (login(t, req) /\ (UnknownIdentity(req) \/ WrongPassword(req)))
          => /\ result'[t] = InvalidCredentials
             /\ SESSIONS' = SESSIONS]_vars

\* both identities of the login requests are registered and a login was
\* answered "Invalid credentials": its password was wrong
C6_Witness ==
    /\ DOMAIN USERS = {<<"a">>, <<"b">>}
    /\ \E t \in Threads : result[t] = InvalidCredentials

\* C7: every password of at least 4 characters verifies against its own
\* digest, and against a stored digest no two different passwords verify,
\* so that only the password given at registration logs in.
C7_OnlyTheRegisteredPasswordVerifies ==
    /\ \A p \in Passwords, t \in Threads :
          HashPasswordOk(p) => verify_password(p, hash_password(p, Salt(t)))
    /\ \A u \in DOMAIN USERS : \A p \in Passwords, q \in Passwords :
          ( /\ verify_password(p, USERS[u].password_hash)
            /\ verify_password(q, USERS[u].password_hash) ) => p = q

\* C8: the file users.json, when it exists, is a complete document at
\* every moment.
C8_DurableStoreNeverPartial ==
    Exists(DATA_FILE) => Parses(fs[DATA_FILE])

CreatedOk(t) ==
    /\ result[t].op = "create"
    /\ result[t].status = 200

\* between open(tmp) and the return of os.replace
Persisting(t) == pc[t] \in {"c_dump", "c_replace"}

\* C9: the persist steps of two create calls do not interleave, no
\* incomplete users.json is visible, and when two overlapping calls for
\* different identities have both returned success users.json holds both
\* records.
C9_ConcurrentCreatesSerialized ==
    /\ \A t \in Threads, u \in Threads :
          (t # u /\ Persisting(t)) => ~Persisting(u)
    /\ Exists(DATA_FILE) => Parses(fs[DATA_FILE])
    /\ \A t \in Threads, u \in Threads :
          ( /\ CreatedOk(t) /\ CreatedOk(u)
            /\ result[t].user_id # result[u].user_id ) =>
              /\ Exists(DATA_FILE)
              /\ {result[t].user_id, result[u].user_id}
                   \subseteq DOMAIN load_users

\* C10: of two overlapping create calls for one identity at most one
\* returns success, and the stored digest is the one the successful call
\* derived.
C10_IdentityUniqueUnderConcurrency ==
    /\ \A t \in Threads, u \in Threads :
          (t # u /\ CreatedOk(t) /\ CreatedOk(u)) =>
              result[t].user_id # result[u].user_id
    /\ \A t \in Threads :
          CreatedOk(t) =>
              /\ result[t].user_id \in DOMAIN USERS
              /\ USERS[result[t].user_id].password_hash[3]
                   = B64Encode(Salt(t))

\* users.json holds a record of identity u that carries the display name,
\* stripped, and a digest of the password
Durable(u, display_name, password) ==
    /\ Exists(DATA_FILE)
    /\ Parses(fs[DATA_FILE])
    /\ u \in DOMAIN load_users
    /\ load_users[u].display_name = Strip(display_name)
    /\ verify_password(password, load_users[u].password_hash)

\* C11: when a create call returns success, users.json holds a record of
\* its identity with the call's display name, stripped, and a digest of the
\* call's password; a record of users.json stays there unchanged in every
\* later step; a restart loads every record of users.json into USERS; and a
\* login with a password that verifies against the loaded digest succeeds.
C11_CreatedUsersDurable ==
    /\ [][\A t \in Threads :
            (CreateReturn(t) /\ result'[t].status = 200) =>
              /\ result'[t].user_id = loc[t].user_id
              /\ Durable(loc[t].user_id, loc[t].display_name,
                         loc[t].password)]_vars
    /\ [][\A u \in DOMAIN load_users :
            /\ u \in DOMAIN load_users'
            /\ load_users'[u] = load_users[u]]_vars
    /\ [][Restart =>
            \A u \in DOMAIN load_users :
              u \in DOMAIN USERS' /\ USERS'[u] = load_users[u]]_vars
    /\ [][\A t \in Threads, req \in LoginRequests :
            ( /\ login(t, req)
              /\ Strip(req.user_id) \in DOMAIN USERS
              /\ verify_password(req.password,
                                 USERS[Strip(req.user_id)].password_hash) )
            => /\ result'[t].ok
               /\ result'[t].user_id = Strip(req.user_id)]_vars

\* the tokens that login returned in an earlier run of the process
EarlierRunTokens == {<<n>> : n \in 1..minted} \ DOMAIN issued

\* C12: a restart leaves the session map empty whatever the TTL, no token
\* of an earlier run is in the session map afterwards, and /validate and
\* /me answer Invalid for every such token.
C12_RestartInvalidatesSessions ==
    /\ [][Restart => SESSIONS' = EmptyDict]_vars
    /\ [](\A tok \in EarlierRunTokens : tok \notin DOMAIN SESSIONS)
    /\ [][\A t \in Threads, op \in {"me", "validate"},
             tok \in EarlierRunTokens :
            SessionGet(t, op, tok) =>
              /\ pc'[t] = "idle"
              /\ result'[t] = InvalidToken(op)]_vars

\* both tokens were issued at time 0 in an earlier run, so that under the
\* TTL of 1 neither has expired by time, no login happened since the
\* restart, and /me was answered Invalid
C12_Witness ==
    /\ TOKEN_TTL_SECONDS = 1
    /\ now = 0
    /\ minted = 2
    /\ issued = EmptyDict
    /\ \E t \in Threads : result[t] = InvalidToken("me")

\* users.json holds the mapping d as json.dump writes it
Stores(d) == Exists(DATA_FILE) /\ fs[DATA_FILE] = Document(d)

\* the in-memory user store is the mapping that users.json holds, and is
\* empty when users.json is absent or holds anything else
LoadedAsStored ==
    LET d == IF Exists(DATA_FILE) THEN DictOf(fs[DATA_FILE]) ELSE EmptyDict
    IN  IF Stores(d) THEN USERS = d ELSE USERS = EmptyDict

\* C13: whenever the process starts, on whatever users.json holds at that
\* moment, startup completes and the in-memory user store is the mapping
\* stored in users.json, and it is empty when users.json is absent, cannot
\* be decoded, is not a complete JSON document, or is a JSON document that
\* is not a mapping.
C13_LoadNeverFails ==
    [][Restart => /\ LoadedAsStored'
                  /\ \A t \in Threads : pc'[t] = "idle"]_vars

\* the process started on a users.json holding a JSON array and serves
\* requests with an empty user store
C13_Witness ==
    /\ Exists(DATA_FILE)
    /\ fs[DATA_FILE] = <<JSON_LIST>>
    /\ USERS = EmptyDict
    /\ \E t \in Threads :
          result[t] = HTTPException("get_user", 404, "User not found")

\* a step of thread t in login, /me, /validate or GET /users
ReadingStep(t) ==
    \/ \E req \in LoginRequests : login(t, req)
    \/ \E op \in {"me", "validate"}, tok \in PresentedTokens :
          SessionGet(t, op, tok)
    \/ SessionTtl(t)
    \/ \E user_id \in RawUserIds : get_user(t, user_id)

\* C14: a step that changes the in-memory user mapping or any file is no
\* step of login, /me, /validate or GET /users, and a step that changes the
\* session map is no step of a login that is answered without a token.
C14_OnlyCreateMutatesUsers ==
    /\ [][(USERS' # USERS \/ fs' # fs) =>
            \A t \in Threads : ~ReadingStep(t)]_vars
    /\ [][SESSIONS' # SESSIONS =>
            \A t \in Threads, req \in LoginRequests :
              ~(login(t, req) /\ ~result'[t].ok)]_vars

\* "a" is registered and stored, holds one session, and a login has just
\* failed
C14_Witness ==
    /\ DOMAIN USERS = {<<"a">>}
    /\ Stores(USERS)
    /\ DOMAIN SESSIONS = {<<1>>}
    /\ minted = 1
    /\ \E t \in Threads : result[t] = InvalidCredentials

\* the token has a session that has not outlived the TTL
Valid(tok) ==
    /\ tok \in DOMAIN SESSIONS
    /\ TOKEN_TTL_SECONDS > 0 =>
          now - SESSIONS[tok].created_at <= TOKEN_TTL_SECONDS

MeOk(user_id, display_name) ==
    [user_id |-> user_id, display_name |-> display_name, token |-> <<>>,
     op |-> "me", status |-> 200, ok |-> TRUE, detail |-> ""]

\* what a call of /me or /validate answers on a token that is Valid
Outcome(op, tok) ==
    LET user_id == SESSIONS[tok].user_id IN
    IF op = "me"
    THEN MeOk(user_id, USERS[user_id].display_name)
    ELSE ValidateOk(user_id)

\* the call of op on tok that completes in this step answers a record or an
\* identity exactly when tok is Valid, and then the one of tok's session
Agree(t, op, tok) ==
    /\ result'[t].ok <=> Valid(tok)
    /\ result'[t].ok => result'[t] = Outcome(op, tok)
    /\ result'[t].status # 404

AtMostEvicts(tok) ==
    /\ DOMAIN SESSIONS' \subseteq DOMAIN SESSIONS
    /\ \A other \in DOMAIN SESSIONS' : SESSIONS'[other] = SESSIONS[other]
    /\ DOMAIN SESSIONS \ DOMAIN SESSIONS' \subseteq {tok}
    /\ SESSIONS' # SESSIONS =>
          /\ TOKEN_TTL_SECONDS > 0
          /\ now - SESSIONS[tok].created_at > TOKEN_TTL_SECONDS

\* C16: a step of /me or /validate on a token adds no session, leaves the
\* identity and the creation time of every remaining session as they were,
\* and removes at most the session of that token, and only when a TTL > 0
\* is configured and the session is older than the TTL.
C16_ValidationOnlyEvicts ==
    /\ [][\A t \in Threads, op \in {"me", "validate"},
             tok \in PresentedTokens :
            SessionGet(t, op, tok) => AtMostEvicts(tok)]_vars
    /\ [][\A t \in Threads :
            (pc[t] = "v_ttl" /\ SessionTtl(t)) =>
              AtMostEvicts(loc[t].token)]_vars

\* with TTL 1, /validate has answered the identity for a token one second
\* old, and the session still carries the creation time 0
C16_Witness ==
    /\ TOKEN_TTL_SECONDS = 1
    /\ now = 1
    /\ DOMAIN SESSIONS = {<<1>>}
    /\ SESSIONS[<<1>>] = [user_id |-> <<"b">>, created_at |-> 0]
    /\ \E t \in Threads : result[t] = ValidateOk(<<"b">>)

\* C17: no call of /me or /validate ends in a server error, and a call
\* that finds the session it read older than the TTL answers Invalid,
\* whatever another call did to that session in between.
C17_ConcurrentValidationSafe ==
    /\ [](\A t \in Threads : result[t].status # 500)
    /\ [][\A t \in Threads :
            ( /\ pc[t] = "v_ttl"
              /\ SessionTtl(t)
              /\ now - loc[t].created_at > TOKEN_TTL_SECONDS ) =>
              result'[t] = InvalidToken(loc[t].op)]_vars

\* the step leaves every session other than the one of tok in the session
\* map, with its identity, its creation time and its validity
OthersKept(tok) ==
    \A other \in DOMAIN SESSIONS \ {tok} :
        /\ other \in DOMAIN SESSIONS'
        /\ SESSIONS'[other] = SESSIONS[other]
        /\ Valid(other)' <=> Valid(other)

\* C19: a successful login adds exactly one session, for its identity and
\* under a token that was not in the session map, and leaves every existing
\* session as it was; the expiry check of one token, evicting it or not,
\* leaves every other session in the map and as valid as it was.
C19_SessionsIndependent ==
    /\ [][\A t \in Threads, req \in LoginRequests :
            (login(t, req) /\ result'[t].ok) =>
              LET tok == result'[t].token IN
              /\ tok \notin DOMAIN SESSIONS
              /\ DOMAIN SESSIONS' = DOMAIN SESSIONS \cup {tok}
              /\ SESSIONS'[tok] = [user_id |-> result'[t].user_id,
                                   created_at |-> now]
              /\ OthersKept(tok)]_vars
    /\ [][\A t \in Threads :
            (pc[t] = "v_ttl" /\ SessionTtl(t)) =>
              OthersKept(loc[t].token)]_vars

\* with TTL 1, "a" logged in at time 0 and again at time 1; at time 2 the
\* first token was answered Invalid and evicted while the second still has
\* its session
C19_Witness ==
    /\ TOKEN_TTL_SECONDS = 1
    /\ now = 2
    /\ DOMAIN issued = {<<1>>, <<2>>}
    /\ issued[<<1>>] = [user_id |-> <<"a">>, at |-> 0]
    /\ issued[<<2>>] = [user_id |-> <<"a">>, at |-> 1]
    /\ DOMAIN SESSIONS = {<<2>>}
    /\ SESSIONS[<<2>>] = [user_id |-> <<"a">>, created_at |-> 1]
    /\ \E t \in Threads : result[t] = ValidateInvalid

\* the tokens that login has returned, in this run or an earlier one, and
\* that have no session
Gone == {<<n>> : n \in 1..minted} \ DOMAIN SESSIONS

\* C20: an expiry check that answers Invalid has removed the token's
\* session; a token that login returned and that has no session gets none
\* in any later step, be it a login, a registration, a validation or a
\* restart; and every call of /me or /validate on such a token is answered
\* Invalid.
C20_ExpiryPermanent ==
    /\ [][\A t \in Threads :
            ( /\ pc[t] = "v_ttl"
              /\ SessionTtl(t)
              /\ result'[t] = InvalidToken(loc[t].op) ) =>
              loc[t].token \notin DOMAIN SESSIONS']_vars
    /\ [][\A tok \in Gone : tok \notin DOMAIN SESSIONS']_vars
    /\ [][\A t \in Threads, op \in {"me", "validate"}, tok \in Gone :
            SessionGet(t, op, tok) =>
              /\ pc'[t] = "idle"
              /\ result'[t] = InvalidToken(op)]_vars

\* with TTL 1, the token that "a" got at time 0 has been evicted, "a" has
\* logged in again at time 2, and a validation was answered Invalid after
\* that login
C20_Witness ==
    /\ TOKEN_TTL_SECONDS = 1
    /\ now = 2
    /\ DOMAIN issued = {<<1>>, <<2>>}
    /\ issued[<<1>>] = [user_id |-> <<"a">>, at |-> 0]
    /\ issued[<<2>>] = [user_id |-> <<"a">>, at |-> 2]
    /\ DOMAIN SESSIONS = {<<2>>}
    /\ \E t \in Threads : result[t] = ValidateInvalid

\* the durable store as load_users reads it holds exactly the in-memory
\* records
Mirrored == load_users = USERS

\* C18: whenever no create call is in progress, the records of the durable
\* store are the in-memory user mapping; a create that failed has left no
\* record in memory that the durable store lacks.
C18_StoreMirrored ==
    (\A t \in Threads : pc[t] = "idle") => Mirrored

=============================================================================
